---- MODULE Spec2Model ----
(***************************************************************************)
(* Session-performance tracker, quiz grading and the chat routes that     *)
(* drive the tracker (server/db.ts, routers/learning.ts, routers/chat.ts). *)
(* Every request is an independent async handler; the handlers share only *)
(* the MySQL tables.  A handler runs atomically between two awaits, and   *)
(* every SQL statement is one atomic step of the database.                *)
(* Further: detectAnswerCorrectness on its own (SpecInfer), and the two   *)
(* generation routes with their extraction of a JSON array from the       *)
(* model's response (SpecGen).                                            *)
(***************************************************************************)
EXTENDS Integers, Sequences, FiniteSets, TLC

\* ------------------------------------------------------------------ bounds

\* concurrent request handlers in flight
NumProcs == 2
\* requests started in one run of Spec / SpecSeq
MaxRequests == 3
\* updateSessionPerformance calls started in one run of SpecLong
MaxLongUpdates == 40
\* rows of the quizzes table
MaxQuizzes == 1
\* SQL statements that reject in one run
MaxFaults == 1

Procs == 1..NumProcs
Sessions == {"s1", "s2"}
\* answer tokens: "A" and "a" differ only in case
Answers == {"A", "a"}
Difficulties == {"easy", "medium", "hard"}

\* --------------------------------------------- IEEE-754 double arithmetic
\* A positive double is [m |-> 53 bits, most significant first, m[1] = 1,
\*                       e |-> exponent of m[1]]; its value is
\* SUM m[i] * 2^(e - i + 1).  Zero is the record Zero.

MantissaBits == 53
\* the mantissa is multiplied in three limbs of at most LimbBits bits
LimbBits == 18

Zero == [m |-> <<>>, e |-> 0]

RECURSIVE BitsToInt(_)
\* the integer whose binary digits are `bits`, most significant first
BitsToInt(bits) ==
  IF Len(bits) = 0 THEN 0
  ELSE IF Len(bits) = 1 THEN bits[1]
  ELSE BitsToInt(SubSeq(bits, 1, Len(bits) \div 2))
         * (2^(Len(bits) - Len(bits) \div 2))
       + BitsToInt(SubSeq(bits, Len(bits) \div 2 + 1, Len(bits)))

\* the w low binary digits of n, most significant first
IntToBits(n, w) == [i \in 1..w |-> (n \div (2^(w - i))) % 2]

\* bits without its leading zeros
StripZeros(bits) ==
  IF \A i \in 1..Len(bits) : bits[i] = 0 THEN <<>>
  ELSE SubSeq(bits,
              CHOOSE i \in 1..Len(bits) :
                bits[i] = 1 /\ \A j \in 1..(i - 1) : bits[j] = 0,
              Len(bits))

\* bits + 1, same length; an all-ones input wraps to all zeros
IncBits(bits) ==
  IF \A i \in 1..Len(bits) : bits[i] = 1 THEN [i \in 1..Len(bits) |-> 0]
  ELSE LET p == CHOOSE i \in 1..Len(bits) :
                  bits[i] = 0 /\ \A j \in (i + 1)..Len(bits) : bits[j] = 1
       IN  [i \in 1..Len(bits) |->
              IF i < p THEN bits[i] ELSE IF i = p THEN 1 ELSE 0]

AnyOne(bits) == \E i \in 1..Len(bits) : bits[i] = 1

\* round-to-nearest, ties-to-even, of the exact value whose significant
\* bits are `bits` (bits[1] = 1, exponent e of bits[1]) followed by a
\* non-zero tail iff `sticky`
RoundNearestEven(bits, sticky, e) ==
  LET n     == Len(bits)
      padded == IF n >= MantissaBits THEN bits
                ELSE bits \o [i \in 1..(MantissaBits - n) |-> 0]
      m     == SubSeq(padded, 1, MantissaBits)
      guard == IF n > MantissaBits THEN bits[MantissaBits + 1] ELSE 0
      rest  == sticky \/ (n > MantissaBits + 1
                          /\ AnyOne(SubSeq(bits, MantissaBits + 2, n)))
      up    == guard = 1 /\ (rest \/ m[MantissaBits] = 1)
      inc   == IncBits(m)
  IN  IF ~up THEN [m |-> m, e |-> e]
      ELSE IF inc[1] = 0
           THEN [m |-> [i \in 1..MantissaBits |-> IF i = 1 THEN 1 ELSE 0],
                 e |-> e + 1]
           ELSE [m |-> inc, e |-> e]

RECURSIVE ScaleUp(_, _)
\* least s >= 0 with a * (2^s) >= b   (a >= 1)
ScaleUp(a, b) == IF a >= b THEN 0 ELSE 1 + ScaleUp(2 * a, b)

\* one limb of long division: the next w quotient bits of r/d as an
\* integer, and the remainder left after them   (0 <= r < d < 2^13)
DivQuo(r, d, w) == (r * (2^w)) \div d
DivRem(r, d, w) == (r * (2^w)) % d

\* the first MantissaBits quotient bits of r/d after the binary point
DivBits(r, d) ==
  LET r1 == DivRem(r, d, LimbBits)
      r2 == DivRem(r1, d, LimbBits)
  IN  IntToBits(DivQuo(r, d, LimbBits), LimbBits)
        \o IntToBits(DivQuo(r1, d, LimbBits), LimbBits)
        \o IntToBits(DivQuo(r2, d, MantissaBits - 2 * LimbBits),
                     MantissaBits - 2 * LimbBits)

\* whether r/d has non-zero bits after those MantissaBits bits
DivSticky(r, d) ==
  DivRem(DivRem(DivRem(r, d, LimbBits), d, LimbBits), d,
         MantissaBits - 2 * LimbBits) # 0

\* the double nearest to a / b   (a >= 0, b >= 1; the JavaScript `a / b`)
FDiv(a, b) ==
  IF a = 0 THEN Zero
  ELSE LET s   == ScaleUp(a, b)
           \* a < b:  b <= a * 2^s < 2b
           t   == ScaleUp(b, a) - (IF (2^ScaleUp(b, a)) * b > a THEN 1 ELSE 0)
           \* a >= b: b * 2^t <= a < b * 2^(t+1)
           num == IF a >= b THEN a ELSE a * (2^s)
           den == IF a >= b THEN b * (2^t) ELSE b
           e   == IF a >= b THEN t ELSE 0 - s
       IN  RoundNearestEven(<<1>> \o DivBits(num - den, den),
                            DivSticky(num - den, den), e)

\* the exact product bits * c, most significant first (c < 2^7)
MulBits(bits, c) ==
  LET n  == Len(bits)
      lo == BitsToInt(SubSeq(bits, n - LimbBits + 1, n)) * c
      mi == BitsToInt(SubSeq(bits, n - 2 * LimbBits + 1, n - LimbBits)) * c
              + lo \div (2^LimbBits)
      hi == BitsToInt(SubSeq(bits, 1, n - 2 * LimbBits)) * c
              + mi \div (2^LimbBits)
  IN  IntToBits(hi, n - 2 * LimbBits + 7)
        \o IntToBits(mi % (2^LimbBits), LimbBits)
        \o IntToBits(lo % (2^LimbBits), LimbBits)

\* the double nearest to x * c   (c a small positive integer; `x * 100`)
FMul(x, c) ==
  IF x = Zero THEN Zero
  ELSE LET p == StripZeros(MulBits(x.m, c))
       IN  RoundNearestEven(p, FALSE, x.e - MantissaBits + Len(p))

\* Math.round(x) for x >= 0: the integer nearest to x, ties toward +infinity
MathRound(x) ==
  IF x = Zero THEN 0
  ELSE LET ip   == IF x.e < 0 THEN 0
                   ELSE BitsToInt(SubSeq(x.m, 1, x.e + 1))
           half == IF x.e + 2 >= 1 /\ x.e + 2 <= MantissaBits
                   THEN x.m[x.e + 2] ELSE 0
       IN  ip + half

\* round-half-up of the real number a / b   (a >= 0, b >= 1)
RoundHalfUp(a, b) == (2 * a + b) \div (2 * b)

\* ------------------------------------------------------- performance tracker

AccuracyHard == 80
AccuracyMedium == 60
MinProblems == 3

\* the row getOrCreateSessionPerformance inserts
ZeroRow(s) ==
  [sessionId |-> s, totalProblems |-> 0, correctAnswers |-> 0,
   accuracyRate |-> 0, currentDifficulty |-> "medium"]

\* mutant: the ratio is taken the wrong way round
NewAccuracySwapped(newCorrect, newTotal) ==
  IF newCorrect = 0 THEN 0
  ELSE MathRound(FMul(FDiv(newTotal, newCorrect), 100))

\* Math.round((newCorrect / newTotal) * 100)
NewAccuracy(newCorrect, newTotal) ==
  MathRound(FMul(FDiv(newCorrect, newTotal), 100))

\* mutant: the hard threshold excludes 80
NewDifficultyStrict(prior, newTotal, newAccuracy) ==
  IF newTotal >= MinProblems
  THEN IF newAccuracy > AccuracyHard THEN "hard"
       ELSE IF newAccuracy >= AccuracyMedium THEN "medium"
       ELSE "easy"
  ELSE prior

\* mutant: the thresholds apply from the second answer on
NewDifficultyFromTwo(prior, newTotal, newAccuracy) ==
  IF newTotal >= MinProblems - 1
  THEN IF newAccuracy >= AccuracyHard THEN "hard"
       ELSE IF newAccuracy >= AccuracyMedium THEN "medium"
       ELSE "easy"
  ELSE prior

\* mutant: the thresholds apply from the first answer on
NewDifficultyNoMin(prior, newTotal, newAccuracy) ==
  IF newAccuracy >= AccuracyHard THEN "hard"
  ELSE IF newAccuracy >= AccuracyMedium THEN "medium"
  ELSE "easy"

NewDifficulty(prior, newTotal, newAccuracy) ==
  IF newTotal >= MinProblems
  THEN IF newAccuracy >= AccuracyHard THEN "hard"
       ELSE IF newAccuracy >= AccuracyMedium THEN "medium"
       ELSE "easy"
  ELSE prior

NewTotal(performance) == performance.totalProblems + 1

\* mutant: every answer is counted as correct
NewCorrectAlways(performance, isCorrect) ==
  performance.correctAnswers + 1

NewCorrect(performance, isCorrect) ==
  IF isCorrect THEN performance.correctAnswers + 1
  ELSE performance.correctAnswers

\* the four values updateSessionPerformance computes from the row it read
NewSnapshot(performance, isCorrect) ==
  LET newTotal    == NewTotal(performance)
      newCorrect  == NewCorrect(performance, isCorrect)
      newAccuracy == NewAccuracy(newCorrect, newTotal)
  IN  [totalProblems     |-> newTotal,
       correctAnswers    |-> newCorrect,
       accuracyRate      |-> newAccuracy,
       currentDifficulty |-> NewDifficulty(performance.currentDifficulty,
                                           newTotal, newAccuracy)]

\* mutant: the UPDATE increments the stored counters in place
SetRowInPlace(current, performance, isCorrect) ==
  LET snap == NewSnapshot(current, isCorrect)
  IN  [current EXCEPT !.totalProblems     = snap.totalProblems,
                      !.correctAnswers    = snap.correctAnswers,
                      !.accuracyRate      = snap.accuracyRate,
                      !.currentDifficulty = snap.currentDifficulty]

\* mutant: the UPDATE sets the two counters only
SetRowCountersOnly(current, performance, isCorrect) ==
  LET snap == NewSnapshot(performance, isCorrect)
  IN  [current EXCEPT !.totalProblems  = snap.totalProblems,
                      !.correctAnswers = snap.correctAnswers]

\* UPDATE session_performance SET ... WHERE sessionId = s
\* (`performance` is the row the caller read, `current` a stored row)
SetRow(current, performance, isCorrect) ==
  LET snap == NewSnapshot(performance, isCorrect)
  IN  [current EXCEPT !.totalProblems     = snap.totalProblems,
                      !.correctAnswers    = snap.correctAnswers,
                      !.accuracyRate      = snap.accuracyRate,
                      !.currentDifficulty = snap.currentDifficulty]

UpdateRows(table, s, performance, isCorrect) ==
  [table EXCEPT ![s] =
     [i \in DOMAIN @ |-> SetRow(@[i], performance, isCorrect)]]

\* SELECT ... WHERE sessionId = s: the matching rows
RowsOf(table, s) == table[s]

\* INSERT INTO session_performance VALUES (row)
InsertRow(table, row) ==
  [table EXCEPT ![row.sessionId] = Append(@, row)]

\* ------------------------------------------------ correctness inference
\* A response text is a sequence of phrases; a pattern matches the text
\* when it occurs inside one of its phrases (RegExp.test, flag i).  Only
\* the English markers of the two lists are drawn.

IncorrectPatterns ==
  {"incorrect", "wrong", "not correct", "not right", "not quite",
   "unfortunately"}

CorrectPatterns ==
  {"excellent", "correct", "that's right", "well done", "good job",
   "exactly"}

\* flag i: the phrase with its letters in lower case
IgnoreCase(phrase) ==
  CASE phrase = "Correct"   -> "correct"
    [] phrase = "NOT QUITE" -> "not quite"
    [] OTHER                -> phrase

\* substring occurrences among the phrases drawn
Contains(phrase, pattern) ==
  \/ IgnoreCase(phrase) = pattern
  \/ <<IgnoreCase(phrase), pattern>> \in {<<"incorrect", "correct">>,
                                          <<"not correct", "correct">>}

\* mutant: the pattern is looked for at the start of the text only
TestAnchored(pattern, text) == Len(text) > 0 /\ Contains(text[1], pattern)

Test(pattern, text) == \E i \in 1..Len(text) : Contains(text[i], pattern)

\* mutant: the correct patterns are tested first
detectCorrectFirst(aiResponse) ==
  IF \E pattern \in CorrectPatterns : Test(pattern, aiResponse)
  THEN "True"
  ELSE IF \E pattern \in IncorrectPatterns : Test(pattern, aiResponse)
  THEN "False"
  ELSE "Unknown"

\* "True" | "False" | "Unknown" (null)
detectAnswerCorrectness(aiResponse) ==
  IF \E pattern \in IncorrectPatterns : Test(pattern, aiResponse)
  THEN "False"
  ELSE IF \E pattern \in CorrectPatterns : Test(pattern, aiResponse)
  THEN "True"
  ELSE "Unknown"

\* the texts the model is drawn to answer with (<<>> is the empty string)
Texts == {<<>>, <<"hello">>, <<"correct">>, <<"well done", "not quite">>}

Contents ==
  {[type |-> "absent", text |-> <<>>], [type |-> "parts", text |-> <<>>]}
    \cup {[type |-> "string", text |-> t] : t \in Texts}

\* what invokeLLM does: it throws, or resolves to a list of choices
LlmResults ==
  {[throws |-> TRUE, choices |-> <<>>], [throws |-> FALSE, choices |-> <<>>]}
    \cup {[throws |-> FALSE, choices |-> <<c>>] : c \in Contents}

\* ------------------------------------------------------------------ state

VARIABLES
  perf,      \* table session_performance, its rows listed per sessionId
             \* in insertion order (no statement reads the row id)
  quizzes,   \* table quizzes: row id = index
  problems,  \* table practice_problems: row id = index
  pc,        \* per handler: the statement it awaits ("idle": none running)
  loc,       \* per handler: its inputs, locals and last result
  hist,      \* per session: completed update writes (n) and those with
             \* isCorrect (k)
  budget,    \* requests started
  faults     \* SQL statements that rejected

vars == <<perf, quizzes, problems, pc, loc, hist, budget, faults>>

NoRet == [kind |-> "none"]

Fresh ==
  [op |-> "none", sessionId |-> "-", isCorrect |-> FALSE, quizId |-> 0,
   userAnswer |-> "-", quiz |-> <<>>, response |-> <<>>,
   signal |-> "Unknown", performance |-> <<>>, inserted |-> FALSE,
   readSeq |-> 0, calls |-> <<>>, candidates |-> <<>>, items |-> <<>>,
   outcomes |-> <<>>, saved |-> <<>>, rows0 |-> 0, difficulty |-> <<>>,
   ret |-> NoRet]

Init ==
  /\ perf = [s \in Sessions |-> <<>>]
  /\ quizzes = <<>>
  /\ problems = <<>>
  /\ pc = [p \in Procs |-> "idle"]
  /\ loc = [p \in Procs |-> Fresh]
  /\ hist = [s \in Sessions |-> [n |-> 0, k |-> 0]]
  /\ budget = 0
  /\ faults = 0

ChatOps == {"sendMessage", "evaluateAnswer"}
TrackerStatements == {"goc_select", "goc_insert", "goc_reselect", "upd_write"}
DbStatements ==
  TrackerStatements \cup {"gsp_select", "sqa_getQuizzes", "sqa_updateQuiz"}

\* A resolved handler stays "done" for one step, in which its result can be
\* observed; nothing else runs before the response is delivered (Finish).
NoneDone == \A q \in Procs : pc[q] # "done"

\* handler p awaits statement `at`
At(p, at) == NoneDone /\ pc[p] = at

\* a new request takes the lowest free handler slot
Free(p) == At(p, "idle") /\ \A q \in Procs : q < p => pc[q] # "idle"

\* the message of the Error a route's catch block rethrows
ErrorMessage(op) ==
  CASE op = "getSessionPerformance"    -> "Failed to get session performance"
    [] op = "updateSessionPerformance" -> "Failed to update session performance"
    [] op = "submitQuizAnswer"         -> "Failed to submit quiz answer"
    [] op = "sendMessage"              -> "Failed to get AI response"
    [] op = "evaluateAnswer"           -> "Failed to evaluate answer"
    [] op = "generatePracticeProblems" ->
         "Failed to generate practice problems"
    [] op = "generateQuiz"             -> "Failed to generate quiz"
    [] OTHER                           -> "Database error"

Failure(op) == [kind |-> "error", message |-> ErrorMessage(op)]

\* the handler resolves (or rejects) with r
Return(p, r) ==
  /\ pc' = [pc EXCEPT ![p] = "done"]
  /\ loc' = [loc EXCEPT ![p].ret = r]

\* mutant: sendMessage reports every reply as an answer evaluation
RouteResultAlwaysEvaluation(l, snap) ==
  CASE l.op = "updateSessionPerformance" ->
         [kind |-> "snapshot", snapshot |-> snap]
    [] l.op = "submitQuizAnswer" ->
         [kind |-> "graded", isCorrect |-> l.isCorrect,
          correctAnswer |-> l.quiz[1].correctAnswer]
    [] l.op = "sendMessage" ->
         [kind |-> "chat", response |-> l.response,
          isAnswerEvaluation |-> TRUE,
          isCorrect |-> l.signal]
    [] l.op = "evaluateAnswer" ->
         [kind |-> "evaluation", evaluation |-> l.response,
          isCorrect |-> l.signal = "True"]

\* what a route returns once its updateSessionPerformance call is over;
\* l is the handler's locals, snap the snapshot the call returned
RouteResult(l, snap) ==
  CASE l.op = "updateSessionPerformance" ->
         [kind |-> "snapshot", snapshot |-> snap]
    [] l.op = "submitQuizAnswer" ->
         [kind |-> "graded", isCorrect |-> l.isCorrect,
          correctAnswer |-> l.quiz[1].correctAnswer]
    [] l.op = "sendMessage" ->
         [kind |-> "chat", response |-> l.response,
          isAnswerEvaluation |-> l.signal # "Unknown",
          isCorrect |-> l.signal]
    [] l.op = "evaluateAnswer" ->
         [kind |-> "evaluation", evaluation |-> l.response,
          isCorrect |-> l.signal = "True"]

\* ------------------------------------------------------------ quiz storage

QuizTokens == {"A"}

\* what a NOT NULL text column holds once the insert is accepted: the
\* value, or the implicit default '' for a value that was undefined
NotNull(v) == IF v = <<>> THEN "" ELSE v[1]

\* JSON.stringify(options): the text of a list, kept as that list
Stringify(options) ==
  IF options = <<>> THEN <<>>
  ELSE <<[isJson |-> TRUE, list |-> options[1]]>>

\* the empty text '' in the options column
EmptyText == [isJson |-> FALSE, list |-> <<>>]

\* db.insert(quizzes).values({sessionId, question, options: JSON.stringify(
\* options), correctAnswer, explanation}): the arguments are <<value>> or
\* <<>> (undefined); explanation is nullable, userAnswer and isCorrect
\* start NULL (<<>>)
QuizRow(sessionId, question, options, correctAnswer, explanation) ==
  [sessionId |-> sessionId,
   question |-> NotNull(question),
   options |-> IF Stringify(options) = <<>> THEN EmptyText
               ELSE Stringify(options)[1],
   correctAnswer |-> NotNull(correctAnswer),
   explanation |-> explanation,
   userAnswer |-> <<>>, isCorrect |-> <<>>]

\* a quiz of the session comes into being, with token correctAnswer
createQuiz(sessionId, correctAnswer) ==
  /\ \A q \in DOMAIN pc : pc[q] # "done"
  /\ Len(quizzes) < MaxQuizzes
  /\ quizzes' = Append(quizzes,
                       QuizRow(sessionId, <<"q">>, <<<<"A", "B", "C", "D">>>>,
                               <<correctAnswer>>, <<"e">>))
  /\ UNCHANGED <<problems, perf, pc, loc, hist, budget, faults>>

\* getQuizzes(sessionId): the ids of the session's quiz rows
getQuizzes(rows, sessionId) ==
  {i \in DOMAIN rows : rows[i].sessionId = sessionId}

\* mutant: the quiz is looked up among the quizzes of every session
FindQuizAnySession(rows, sessionId, quizId) ==
  IF quizId \in DOMAIN rows THEN <<quizId>> ELSE <<>>

\* quizzes.find((q) => q.id === input.quizId): <<id>> or <<>>
FindQuiz(rows, sessionId, quizId) ==
  IF quizId \in getQuizzes(rows, sessionId) THEN <<quizId>> ELSE <<>>

\* mutant: the comparison ignores case
GradeIgnoreCase(correctAnswer, userAnswer) ==
  LET Lower(x) == IF x = "A" THEN "a" ELSE IF x = "B" THEN "b" ELSE x
  IN  Lower(correctAnswer) = Lower(userAnswer)

\* quiz.correctAnswer === input.userAnswer
Grade(correctAnswer, userAnswer) == correctAnswer = userAnswer

\* UPDATE quizzes SET userAnswer, isCorrect WHERE id = quizId
updateQuizAnswer(rows, quizId, userAnswer, isCorrect) ==
  [i \in DOMAIN rows |->
     IF i = quizId
     THEN [rows[i] EXCEPT !.userAnswer = <<userAnswer>>,
                          !.isCorrect = <<IF isCorrect THEN 1 ELSE 0>>]
     ELSE rows[i]]

\* ---------------------------------------------------------------- requests

Begin(p, op, sessionId) ==
  /\ budget < MaxRequests
  /\ budget' = budget + 1
  /\ Free(p)
  /\ loc' = [loc EXCEPT ![p] = [Fresh EXCEPT !.op = op,
                                             !.sessionId = sessionId]]

\* db.getOrCreateSessionPerformance(sessionId), called on its own
StartGetOrCreate(p, sessionId) ==
  /\ Begin(p, "getOrCreate", sessionId)
  /\ pc' = [pc EXCEPT ![p] = "goc_select"]
  /\ UNCHANGED <<problems, perf, quizzes, hist, faults>>

\* route learning.getSessionPerformance
StartGetSessionPerformance(p, sessionId) ==
  /\ Begin(p, "getSessionPerformance", sessionId)
  /\ pc' = [pc EXCEPT ![p] = "gsp_select"]
  /\ UNCHANGED <<problems, perf, quizzes, hist, faults>>

\* route learning.updateSessionPerformance
StartUpdate(p, sessionId, isCorrect, max) ==
  /\ budget < max
  /\ Free(p)
  /\ loc' = [loc EXCEPT ![p] = [Fresh EXCEPT !.op = "updateSessionPerformance",
                                             !.sessionId = sessionId,
                                             !.isCorrect = isCorrect,
                                             !.calls = <<isCorrect>>]]
  /\ pc' = [pc EXCEPT ![p] = "goc_select"]
  /\ budget' = budget + 1
  /\ UNCHANGED <<problems, perf, quizzes, hist, faults>>

\* route learning.submitQuizAnswer
StartSubmitQuizAnswer(p, quizId, userAnswer, sessionId) ==
  /\ budget < MaxRequests
  /\ Free(p)
  /\ loc' = [loc EXCEPT ![p] = [Fresh EXCEPT !.op = "submitQuizAnswer",
                                             !.sessionId = sessionId,
                                             !.quizId = quizId,
                                             !.userAnswer = userAnswer]]
  /\ pc' = [pc EXCEPT ![p] = "sqa_getQuizzes"]
  /\ budget' = budget + 1
  /\ UNCHANGED <<problems, perf, quizzes, hist, faults>>

\* routes chat.sendMessage and chat.evaluateAnswer: getChatLogs reads the
\* chat log, which no statement below writes, and the model is invoked
StartChat(p, op, sessionId) ==
  /\ Begin(p, op, sessionId)
  /\ pc' = [pc EXCEPT ![p] = "llm"]
  /\ UNCHANGED <<problems, perf, quizzes, hist, faults>>

\* ------------------------------------------------------------------- steps

\* getOrCreateSessionPerformance returns row r to its caller: the route
\* (or direct caller) returns it, updateSessionPerformance goes on to write
GocReturn(p, r) ==
  IF loc[p].op \in {"getOrCreate", "getSessionPerformance"}
  THEN Return(p, [kind |-> "row", row |-> r])
  ELSE /\ pc' = [pc EXCEPT ![p] = "upd_write"]
       /\ loc' = [loc EXCEPT ![p].performance = <<r>>,
                             ![p].readSeq = hist[loc[p].sessionId].n]

\* mutant: the read creates the row it did not find
GspSelectCreate(p) ==
  /\ At(p, "gsp_select")
  /\ IF RowsOf(perf, loc[p].sessionId) = <<>>
     THEN /\ perf' = InsertRow(perf, ZeroRow(loc[p].sessionId))
          /\ Return(p, [kind |-> "row", row |-> ZeroRow(loc[p].sessionId)])
     ELSE /\ perf' = perf
          /\ \E i \in DOMAIN RowsOf(perf, loc[p].sessionId) :
               Return(p, [kind |-> "row",
                          row |-> RowsOf(perf, loc[p].sessionId)[i]])
  /\ UNCHANGED <<problems, quizzes, hist, budget, faults>>

\* route getSessionPerformance: db.getSessionPerformance, then
\* getOrCreateSessionPerformance when it found no row
GspSelect(p) ==
  /\ At(p, "gsp_select")
  /\ IF RowsOf(perf, loc[p].sessionId) = <<>>
     THEN /\ pc' = [pc EXCEPT ![p] = "goc_select"]
          /\ loc' = loc
     ELSE \E i \in DOMAIN RowsOf(perf, loc[p].sessionId) :
            Return(p, [kind |-> "row",
                       row |-> RowsOf(perf, loc[p].sessionId)[i]])
  /\ UNCHANGED <<problems, perf, quizzes, hist, budget, faults>>

\* mutant: the result of the first SELECT is not looked at
GocSelectNoCheck(p) ==
  /\ At(p, "goc_select")
  /\ pc' = [pc EXCEPT ![p] = "goc_insert"]
  /\ loc' = loc
  /\ UNCHANGED <<problems, perf, quizzes, hist, budget, faults>>

\* SELECT ... WHERE sessionId LIMIT 1 (no ORDER BY: any matching row)
GocSelect(p) ==
  /\ At(p, "goc_select")
  /\ IF RowsOf(perf, loc[p].sessionId) = <<>>
     THEN /\ pc' = [pc EXCEPT ![p] = "goc_insert"]
          /\ loc' = loc
     ELSE \E i \in DOMAIN RowsOf(perf, loc[p].sessionId) :
            GocReturn(p, RowsOf(perf, loc[p].sessionId)[i])
  /\ UNCHANGED <<problems, perf, quizzes, hist, budget, faults>>

\* INSERT INTO session_performance: the table has no unique key on sessionId
GocInsert(p) ==
  /\ At(p, "goc_insert")
  /\ perf' = InsertRow(perf, ZeroRow(loc[p].sessionId))
  /\ pc' = [pc EXCEPT ![p] = "goc_reselect"]
  /\ loc' = [loc EXCEPT ![p].inserted = TRUE]
  /\ UNCHANGED <<problems, quizzes, hist, budget, faults>>

GocReselect(p) ==
  /\ At(p, "goc_reselect")
  /\ \E i \in DOMAIN RowsOf(perf, loc[p].sessionId) :
       GocReturn(p, RowsOf(perf, loc[p].sessionId)[i])
  /\ UNCHANGED <<problems, perf, quizzes, hist, budget, faults>>

\* the UPDATE of updateSessionPerformance and the return of its caller
UpdWrite(p) ==
  LET l    == loc[p]
      snap == NewSnapshot(l.performance[1], l.isCorrect)
  IN  /\ At(p, "upd_write")
      /\ perf' = UpdateRows(perf, l.sessionId, l.performance[1], l.isCorrect)
      /\ hist' = [hist EXCEPT ![l.sessionId] =
                    [@ EXCEPT !.n = @ + 1,
                              !.k = @ + (IF l.isCorrect THEN 1 ELSE 0)]]
      /\ Return(p, RouteResult(l, snap))
      /\ UNCHANGED <<problems, quizzes, budget, faults>>

\* submitQuizAnswer: getQuizzes, find, compare
SqaGetQuizzes(p) ==
  LET l     == loc[p]
      found == FindQuiz(quizzes, l.sessionId, l.quizId)
  IN  /\ At(p, "sqa_getQuizzes")
      /\ IF found = <<>>
         THEN Return(p, Failure(l.op))
         ELSE /\ pc' = [pc EXCEPT ![p] = "sqa_updateQuiz"]
              /\ loc' = [loc EXCEPT
                   ![p].quiz = <<quizzes[found[1]]>>,
                   ![p].isCorrect =
                     Grade(quizzes[found[1]].correctAnswer, l.userAnswer)]
      /\ UNCHANGED <<problems, perf, quizzes, hist, budget, faults>>

\* mutant: a quiz that has an answer already is graded again but not
\* counted again
SqaUpdateQuizOnce(p) ==
  LET l == loc[p]
  IN  /\ At(p, "sqa_updateQuiz")
      /\ quizzes' = updateQuizAnswer(quizzes, l.quizId, l.userAnswer,
                                     l.isCorrect)
      /\ IF l.quiz[1].userAnswer # <<>>
         THEN Return(p, RouteResult(l, <<>>))
         ELSE /\ pc' = [pc EXCEPT ![p] = "goc_select"]
              /\ loc' = [loc EXCEPT ![p].calls = Append(@, l.isCorrect)]
      /\ UNCHANGED <<problems, perf, hist, budget, faults>>

\* submitQuizAnswer: updateQuizAnswer, then updateSessionPerformance is called
SqaUpdateQuiz(p) ==
  LET l == loc[p]
  IN  /\ At(p, "sqa_updateQuiz")
      /\ quizzes' = updateQuizAnswer(quizzes, l.quizId, l.userAnswer,
                                     l.isCorrect)
      /\ pc' = [pc EXCEPT ![p] = "goc_select"]
      /\ loc' = [loc EXCEPT ![p].calls = Append(@, l.isCorrect)]
      /\ UNCHANGED <<problems, perf, hist, budget, faults>>

\* mutant: content that is absent or no text is taken as an empty reply
LlmEmptyText(p) ==
  /\ At(p, "llm")
  /\ \E result \in LlmResults :
       IF result.throws \/ Len(result.choices) = 0
       THEN Return(p, Failure(loc[p].op))
       ELSE LET text   == result.choices[1].text
                signal == detectAnswerCorrectness(text)
                l      == [loc[p] EXCEPT !.response = text,
                                         !.signal = signal]
            IN  IF signal = "Unknown"
                THEN /\ pc' = [pc EXCEPT ![p] = "done"]
                     /\ loc' = [loc EXCEPT ![p] =
                                  [l EXCEPT !.ret = RouteResult(l, <<>>)]]
                ELSE /\ pc' = [pc EXCEPT ![p] = "goc_select"]
                     /\ loc' = [loc EXCEPT ![p] =
                                  [l EXCEPT !.isCorrect = signal = "True",
                                            !.calls = <<signal = "True">>]]
  /\ UNCHANGED <<problems, perf, quizzes, hist, budget, faults>>

\* mutant: a reply without marker is counted as an incorrect answer
LlmUnknownIsWrong(p) ==
  /\ At(p, "llm")
  /\ \E result \in LlmResults :
       IF \/ result.throws
          \/ Len(result.choices) = 0
          \/ result.choices[1].type # "string"
          \/ result.choices[1].text = <<>>
       THEN Return(p, Failure(loc[p].op))
       ELSE LET text   == result.choices[1].text
                signal == detectAnswerCorrectness(text)
                l      == [loc[p] EXCEPT !.response = text,
                                         !.signal = signal]
            IN  /\ pc' = [pc EXCEPT ![p] = "goc_select"]
                /\ loc' = [loc EXCEPT ![p] =
                             [l EXCEPT !.isCorrect = signal = "True",
                                       !.calls = <<signal = "True">>]]
  /\ UNCHANGED <<problems, perf, quizzes, hist, budget, faults>>

\* sendMessage / evaluateAnswer: invokeLLM resolves or throws
Llm(p) ==
  /\ At(p, "llm")
  /\ \E result \in LlmResults :
       IF \/ result.throws
          \/ Len(result.choices) = 0
          \/ result.choices[1].type # "string"
          \/ result.choices[1].text = <<>>
       THEN Return(p, Failure(loc[p].op))
       ELSE LET text   == result.choices[1].text
                signal == detectAnswerCorrectness(text)
                l      == [loc[p] EXCEPT !.response = text,
                                         !.signal = signal]
            IN  IF signal = "Unknown"
                THEN /\ pc' = [pc EXCEPT ![p] = "done"]
                     /\ loc' = [loc EXCEPT ![p] =
                                  [l EXCEPT !.ret = RouteResult(l, <<>>)]]
                ELSE /\ pc' = [pc EXCEPT ![p] = "goc_select"]
                     /\ loc' = [loc EXCEPT ![p] =
                                  [l EXCEPT !.isCorrect = signal = "True",
                                            !.calls = <<signal = "True">>]]
  /\ UNCHANGED <<problems, perf, quizzes, hist, budget, faults>>

\* mutant: the chat routes rethrow a failure of updateSessionPerformance
DbFaultRethrow(p) ==
  /\ NoneDone
  /\ pc[p] \in DbStatements
  /\ faults < MaxFaults
  /\ faults' = faults + 1
  /\ Return(p, Failure(loc[p].op))
  /\ UNCHANGED <<problems, perf, quizzes, hist, budget>>

\* mutant: a failure after the quiz row was written takes the answer back
DbFaultRollback(p) ==
  /\ NoneDone
  /\ pc[p] \in DbStatements
  /\ faults < MaxFaults
  /\ faults' = faults + 1
  /\ IF loc[p].op \in ChatOps
     THEN Return(p, RouteResult(loc[p], <<>>))
     ELSE Return(p, Failure(loc[p].op))
  /\ quizzes' =
       IF loc[p].op = "submitQuizAnswer" /\ pc[p] \in TrackerStatements
       THEN [quizzes EXCEPT ![loc[p].quizId].userAnswer = <<>>,
                            ![loc[p].quizId].isCorrect = <<>>]
       ELSE quizzes
  /\ UNCHANGED <<problems, perf, hist, budget>>

\* the SQL statement a handler awaits rejects: the chat routes swallow a
\* failure of updateSessionPerformance, every other caller rethrows
DbFault(p) ==
  /\ NoneDone
  /\ pc[p] \in DbStatements
  /\ faults < MaxFaults
  /\ faults' = faults + 1
  /\ IF loc[p].op \in ChatOps
     THEN Return(p, RouteResult(loc[p], <<>>))
     ELSE Return(p, Failure(loc[p].op))
  /\ UNCHANGED <<problems, perf, quizzes, hist, budget>>

\* the response has been delivered; the handler's locals are gone
Finish(p) ==
  /\ pc[p] = "done"
  /\ pc' = [pc EXCEPT ![p] = "idle"]
  /\ loc' = [loc EXCEPT ![p] = Fresh]
  /\ UNCHANGED <<problems, perf, quizzes, hist, budget, faults>>

Step(p) ==
  \/ Finish(p)
  \/ GspSelect(p)
  \/ GocSelect(p)
  \/ GocInsert(p)
  \/ GocReselect(p)
  \/ UpdWrite(p)
  \/ SqaGetQuizzes(p)
  \/ SqaUpdateQuiz(p)
  \/ Llm(p)
  \/ DbFault(p)

Start(p) ==
  \/ \E s \in Sessions : StartGetOrCreate(p, s)
  \/ \E s \in Sessions : StartGetSessionPerformance(p, s)
  \/ \E s \in Sessions, b \in BOOLEAN : StartUpdate(p, s, b, MaxRequests)
  \/ \E q \in 1..MaxQuizzes, a \in Answers, s \in Sessions :
       StartSubmitQuizAnswer(p, q, a, s)
  \/ \E op \in ChatOps, s \in Sessions : StartChat(p, op, s)

\* no handler is between its first and its last statement
AllIdle == \A p \in Procs : pc[p] = "idle"

\* any interleaving of the handlers
Next ==
  \/ \E p \in Procs : Start(p)
  \/ \E p \in Procs : Step(p)
  \/ \E s \in Sessions, t \in QuizTokens : createQuiz(s, t)

Spec == Init /\ [][Next]_vars

\* one request at a time: a request starts only when none is running
NextSeq ==
  \/ AllIdle /\ \E p \in Procs : Start(p)
  \/ \E p \in Procs : Step(p)
  \/ AllIdle /\ \E s \in Sessions, t \in QuizTokens : createQuiz(s, t)

SpecSeq == Init /\ [][NextSeq]_vars

\* one session, one caller: updateSessionPerformance again and again
NextLong ==
  \/ \E b \in BOOLEAN : StartUpdate(1, "s1", b, MaxLongUpdates)
  \/ GocSelect(1)
  \/ GocInsert(1)
  \/ GocReselect(1)
  \/ UpdWrite(1)
  \/ Finish(1)

SpecLong == Init /\ [][NextLong]_vars

\* one session, two callers: updateSessionPerformance calls that overlap
MaxRaceUpdates == 6

RaceProcs == {p \in Procs : p <= 2}

NextRace ==
  \/ \E p \in RaceProcs, b \in BOOLEAN : StartUpdate(p, "s1", b, MaxRaceUpdates)
  \/ \E p \in RaceProcs : GocSelect(p)
  \/ \E p \in RaceProcs : GocInsert(p)
  \/ \E p \in RaceProcs : GocReselect(p)
  \/ \E p \in RaceProcs : UpdWrite(p)
  \/ \E p \in RaceProcs : Finish(p)

SpecRace == Init /\ [][NextRace]_vars

\* detectAnswerCorrectness on its own: each caller holds a response text,
\* drawn from the texts of at most MaxPhrases phrases, and applies it
MaxPhrases == 2

Phrases ==
  {"hello", "Correct", "incorrect", "not correct", "well done", "NOT QUITE",
   "exactly", "wrong"}

InferTexts ==
  UNION {[1..n -> Phrases] : n \in 0..MaxPhrases}

\* two callers, to compare the results of equal texts
InferProcs == {p \in Procs : p <= 2}

InitInfer ==
  /\ perf = [s \in Sessions |-> <<>>]
  /\ quizzes = <<>>
  /\ problems = <<>>
  /\ pc = [p \in Procs |-> IF p \in InferProcs THEN "infer" ELSE "idle"]
  /\ \E t \in [InferProcs -> InferTexts] :
       loc = [p \in Procs |->
                IF p \in InferProcs
                THEN [Fresh EXCEPT !.op = "infer", !.response = t[p]]
                ELSE Fresh]
  /\ hist = [s \in Sessions |-> [n |-> 0, k |-> 0]]
  /\ budget = 0
  /\ faults = 0

Infer(p) ==
  /\ pc[p] = "infer"
  /\ pc' = [pc EXCEPT ![p] = "done"]
  /\ loc' = [loc EXCEPT ![p].signal = detectAnswerCorrectness(loc[p].response)]
  /\ UNCHANGED <<problems, perf, quizzes, hist, budget, faults>>

NextInfer == \E p \in Procs : Infer(p)

SpecInfer == InitInfer /\ [][NextInfer]_vars

\* ---------------------------------------------------- content extraction
\* A model response is a sequence of tokens: the JSON punctuation
\* "[" "]" "{" "}" ",", white space " ", the literals "num", "str" and
\* "null", a prose word "w", and the members of one record as one token
\* (Bodies).  No token but the punctuation holds a bracket or a brace.

FieldNames ==
  {"problem", "solution", "question", "options", "correctAnswer",
   "explanation"}

\* a field that is not there reads as undefined, <<>>
NoMembers == [f \in FieldNames |-> <<>>]

FourOptions == <<"A", "B", "C", "D">>

\* the members each body token stands for
Members(body) ==
  CASE body = "P1" -> [NoMembers EXCEPT !.problem = <<"p1">>,
                                        !.solution = <<"s1">>]
    [] body = "P2" -> [NoMembers EXCEPT !.problem = <<"p2">>,
                                        !.solution = <<"s2">>]
    [] body = "P3" -> [NoMembers EXCEPT !.problem = <<"p3">>,
                                        !.solution = <<"s3">>]
    [] body = "Q4" -> [NoMembers EXCEPT !.question = <<"q4">>,
                                        !.options = <<FourOptions>>,
                                        !.correctAnswer = <<"A">>,
                                        !.explanation = <<"e4">>]
    [] body = "Q3" -> [NoMembers EXCEPT !.question = <<"q3">>,
                                        !.options = <<<<"A", "B", "C">>>>,
                                        !.correctAnswer = <<"A">>,
                                        !.explanation = <<"e3">>]
    [] body = "Qx" -> [NoMembers EXCEPT !.question = <<"qx">>,
                                        !.options = <<FourOptions>>,
                                        !.correctAnswer = <<"A">>]
    [] body = "Qq" -> [NoMembers EXCEPT !.options = <<FourOptions>>,
                                        !.correctAnswer = <<"A">>,
                                        !.explanation = <<"eq">>]

Bodies == {"P1", "P2", "P3", "Q4", "Q3", "Qx", "Qq"}

\* parsed JSON values
Scalar(t) == [t |-> t, items |-> <<>>, members |-> NoMembers]
Obj(members) == [t |-> "obj", items |-> <<>>, members |-> members]
Arr(items) == [t |-> "arr", items |-> items, members |-> NoMembers]

\* value.field in JavaScript; reading a field of null throws (see GenSave)
Field(value, f) == value.members[f]

NoParse == [ok |-> FALSE, val |-> Scalar("null"), next |-> 0]

\* the first position from i on that holds no white space
SkipWs(toks, i) ==
  CHOOSE j \in i..(Len(toks) + 1) :
    /\ j = Len(toks) + 1 \/ toks[j] # " "
    /\ \A k \in i..(j - 1) : toks[k] = " "

TokenAt(toks, i, tok) == i <= Len(toks) /\ toks[i] = tok

RECURSIVE ParseValue(_, _)
RECURSIVE ParseElements(_, _, _)

\* JSON.parse, one value starting at or after position i0
ParseValue(toks, i0) ==
  LET i == SkipWs(toks, i0)
      j == SkipWs(toks, i + 1)
      k == SkipWs(toks, j + 1)
  IN  IF i > Len(toks) THEN NoParse
      ELSE IF toks[i] \in {"num", "str", "null"}
      THEN [ok |-> TRUE, val |-> Scalar(toks[i]), next |-> i + 1]
      ELSE IF toks[i] = "{"
      THEN IF TokenAt(toks, j, "}")
           THEN [ok |-> TRUE, val |-> Obj(NoMembers), next |-> j + 1]
           ELSE IF j <= Len(toks) /\ toks[j] \in Bodies /\ TokenAt(toks, k, "}")
           THEN [ok |-> TRUE, val |-> Obj(Members(toks[j])), next |-> k + 1]
           ELSE NoParse
      ELSE IF toks[i] = "["
      THEN IF TokenAt(toks, j, "]")
           THEN [ok |-> TRUE, val |-> Arr(<<>>), next |-> j + 1]
           ELSE ParseElements(toks, j, <<>>)
      ELSE NoParse

\* the elements of an array from position i on, after those in acc
ParseElements(toks, i, acc) ==
  LET r == ParseValue(toks, i)
      j == SkipWs(toks, r.next)
  IN  IF ~r.ok THEN NoParse
      ELSE IF TokenAt(toks, j, ",")
      THEN ParseElements(toks, j + 1, Append(acc, r.val))
      ELSE IF TokenAt(toks, j, "]")
      THEN [ok |-> TRUE, val |-> Arr(Append(acc, r.val)), next |-> j + 1]
      ELSE NoParse

\* JSON.parse(jsonStr): <<value>>, or <<>> when it throws
JSONParse(toks) ==
  LET r == ParseValue(toks, 1)
  IN  IF r.ok /\ SkipWs(toks, r.next) > Len(toks) THEN <<r.val>> ELSE <<>>

\* response.match(/\[\s*\{[\s\S]*\}\s*\]/): positions of "[" followed by
\* "{", and of "]" preceded by "}", white space between them allowed
OpenAt(toks, i) ==
  toks[i] = "[" /\ TokenAt(toks, SkipWs(toks, i + 1), "{")

CloseAt(toks, i, j) ==
  /\ toks[j] = "]"
  /\ \E k \in (SkipWs(toks, i + 1) + 1)..(j - 1) :
       /\ toks[k] = "}"
       /\ \A m \in (k + 1)..(j - 1) : toks[m] = " "

\* leftmost start, then the longest match: <<matched text>> or <<>>
JsonMatch(response) ==
  LET n      == Len(response)
      starts == {i \in 1..n : OpenAt(response, i)
                                /\ \E j \in (i + 1)..n : CloseAt(response, i, j)}
  IN  IF starts = {} THEN <<>>
      ELSE LET i == CHOOSE x \in starts : \A y \in starts : x <= y
               j == CHOOSE x \in (i + 1)..n :
                      /\ CloseAt(response, i, x)
                      /\ \A y \in (x + 1)..n : ~CloseAt(response, i, y)
           IN  <<SubSeq(response, i, j)>>

\* jsonMatch ? jsonMatch[0] : response
JsonStr(response) ==
  IF JsonMatch(response) # <<>> THEN JsonMatch(response)[1] ELSE response

\* mutant: a parsed value that is no array is taken as the only item
ParseCandidatesLax(response) ==
  LET parsed == JSONParse(JsonStr(response))
  IN  IF parsed = <<>> THEN <<>>
      ELSE IF parsed[1].t # "arr" THEN <<parsed[1]>>
      ELSE parsed[1].items

\* the try block around JSON.parse: the candidate items, [] when the parse
\* throws or yields no array
ParseCandidates(response) ==
  LET parsed == JSONParse(JsonStr(response))
  IN  IF parsed = <<>> THEN <<>>
      ELSE IF parsed[1].t # "arr" THEN <<>>
      ELSE parsed[1].items

\* ------------------------------------------------------ content generation
\* generatePracticeProblems and generateQuiz, one call after the other

MaxGenerations == 2

GenerateOps == {"generatePracticeProblems", "generateQuiz"}

\* responses the model is drawn to give: a core, with or without prose
\* around it
Cores ==
  {<<"[", "]">>,
   <<"[", "{", "P1", "}", "]">>,
   <<"[", "{", "P1", "}", ",", " ", "{", "P2", "}", "]">>,
   <<"[", " ", "{", "P1", "}", ",", "{", "P2", "}", ",", "{", "P3", "}", " ", "]">>,
   <<"[", "{", "P1", "}", ",", "null", ",", "{", "P2", "}", "]">>,
   <<"[", "{", "Q4", "}", ",", "{", "Q3", "}", "]">>,
   <<"[", "{", "Qx", "}", ",", "{", "Qq", "}", ",", "{", "Q4", "}", "]">>,
   <<"[", "num", ",", "{", "}", "]">>,
   <<"[", "{", "P1", "}", ",", "{", "P2">>,
   <<"{", "P1", "}">>,
   <<"num">>,
   <<"str">>,
   <<"null">>,
   <<"w">>}

Prefixes == {<<>>, <<"w", " ">>, <<"w", "[", "num", "]", "w">>}

Suffixes == {<<>>, <<" ", "w">>, <<" ", "w", "[", "{", "w", "}", "]", "w">>}

GenTexts == {pre \o core \o suf : pre \in Prefixes, core \in Cores,
                                  suf \in Suffixes}

\* result.choices[0]?.message?.content: absent, an array of parts, the
\* empty string, or a text
GenContents ==
  {[type |-> "absent", text |-> <<>>], [type |-> "parts", text |-> <<>>],
   [type |-> "string", text |-> <<>>]}
    \cup {[type |-> "string", text |-> t] : t \in GenTexts}

GenResults ==
  {[throws |-> TRUE, choices |-> <<>>], [throws |-> FALSE, choices |-> <<>>]}
    \cup {[throws |-> FALSE, choices |-> <<c>>] : c \in GenContents}

\* db.insert(practiceProblems).values({sessionId, problemText, solution,
\* difficulty})
ProblemRow(sessionId, problemText, solution, difficulty) ==
  [sessionId |-> sessionId,
   problemText |-> NotNull(problemText),
   solution |-> NotNull(solution),
   difficulty |-> difficulty]

\* the table a generation route inserts into
Table(op) == IF op = "generateQuiz" THEN quizzes ELSE problems

\* { problems: savedProblems, count } / { quizzes: savedQuizzes, count }
Generated(saved) ==
  [kind |-> "generated", items |-> saved, count |-> Len(saved)]

\* routes learning.generatePracticeProblems and learning.generateQuiz;
\* getChatLogs reads the chat log, which nothing here writes
StartGenerate(p, op, sessionId, difficulty) ==
  /\ budget < MaxGenerations
  /\ budget' = budget + 1
  /\ Free(p)
  /\ loc' = [loc EXCEPT ![p] = [Fresh EXCEPT !.op = op,
                                             !.sessionId = sessionId,
                                             !.difficulty = difficulty,
                                             !.rows0 = Len(Table(op))]]
  /\ pc' = [pc EXCEPT ![p] = "gen_llm"]
  /\ UNCHANGED <<problems, perf, quizzes, hist, faults>>

\* invokeLLM resolves or throws; the response is checked and parsed
GenLlm(p) ==
  /\ At(p, "gen_llm")
  /\ \E result \in GenResults :
       IF result.throws
       THEN Return(p, Failure(loc[p].op))
       ELSE IF \/ Len(result.choices) = 0
               \/ result.choices[1].type # "string"
               \/ result.choices[1].text = <<>>
       THEN Return(p, Generated(<<>>))
       ELSE LET items == ParseCandidates(result.choices[1].text)
            IN  IF items = <<>>
                THEN /\ pc' = [pc EXCEPT ![p] = "done"]
                     /\ loc' = [loc EXCEPT
                          ![p].response = result.choices[1].text,
                          ![p].ret = Generated(<<>>)]
                ELSE /\ pc' = [pc EXCEPT ![p] = "gen_save"]
                     /\ loc' = [loc EXCEPT
                          ![p].response = result.choices[1].text,
                          ![p].candidates = items,
                          ![p].items = items]
  /\ UNCHANGED <<problems, perf, quizzes, hist, budget, faults>>

\* the values the insert of one item needs are all there
Complete(op, item) ==
  IF op = "generateQuiz"
  THEN /\ Field(item, "question") # <<>>
       /\ Field(item, "options") # <<>>
       /\ Field(item, "correctAnswer") # <<>>
  ELSE /\ Field(item, "problem") # <<>>
       /\ Field(item, "solution") # <<>>

\* what the insert of one item stores
RowOf(l, item) ==
  IF l.op = "generateQuiz"
  THEN QuizRow(l.sessionId, Field(item, "question"), Field(item, "options"),
               Field(item, "correctAnswer"), Field(item, "explanation"))
  ELSE ProblemRow(l.sessionId, Field(item, "problem"),
                  Field(item, "solution"),
                  IF l.difficulty = <<>> THEN "medium" ELSE l.difficulty[1])

\* what is pushed onto savedProblems / savedQuizzes
SavedItem(op, item) ==
  IF op = "generateQuiz"
  THEN [question |-> Field(item, "question"),
        options |-> Field(item, "options"),
        explanation |-> Field(item, "explanation")]
  ELSE item

\* mutant: the first item that cannot be saved ends the loop
GenAdvanceAbort(p, l) ==
  IF l.items = <<>> \/ ~l.outcomes[Len(l.outcomes)]
  THEN /\ pc' = [pc EXCEPT ![p] = "done"]
       /\ loc' = [loc EXCEPT ![p] = [l EXCEPT !.ret = Generated(l.saved)]]
  ELSE /\ pc' = pc
       /\ loc' = [loc EXCEPT ![p] = l]

\* the loop goes on to the next item, or the route returns
GenAdvance(p, l) ==
  IF l.items = <<>>
  THEN /\ pc' = [pc EXCEPT ![p] = "done"]
       /\ loc' = [loc EXCEPT ![p] = [l EXCEPT !.ret = Generated(l.saved)]]
  ELSE /\ pc' = pc
       /\ loc' = [loc EXCEPT ![p] = l]

\* one pass of the loop "for (const item of items)": the fields of a null
\* item cannot be read (TypeError, caught); the insert is accepted, or it
\* rejects (storage fault, or a NOT NULL column without value under a
\* strict SQL mode) and the item is left out
GenSave(p) ==
  LET l    == loc[p]
      item == Head(l.items)
      After(ok) == [l EXCEPT !.items = Tail(@),
                             !.outcomes = Append(@, ok),
                             !.saved = IF ok
                                       THEN Append(@, SavedItem(l.op, item))
                                       ELSE @]
  IN  /\ At(p, "gen_save")
      /\ \/ /\ item.t = "null"
            /\ GenAdvance(p, After(FALSE))
            /\ UNCHANGED <<problems, quizzes, faults>>
         \/ /\ item.t # "null"
            /\ IF l.op = "generateQuiz"
               THEN /\ quizzes' = Append(quizzes, RowOf(l, item))
                    /\ UNCHANGED problems
               ELSE /\ problems' = Append(problems, RowOf(l, item))
                    /\ UNCHANGED quizzes
            /\ GenAdvance(p, After(TRUE))
            /\ UNCHANGED faults
         \/ /\ item.t # "null"
            /\ IF Complete(l.op, item)
               THEN faults < MaxFaults /\ faults' = faults + 1
               ELSE UNCHANGED faults
            /\ GenAdvance(p, After(FALSE))
            /\ UNCHANGED <<problems, quizzes>>
      /\ UNCHANGED <<perf, hist, budget>>

NextGen ==
  \/ \E d \in {<<>>, <<"hard">>} :
       StartGenerate(1, "generatePracticeProblems", "s1", d)
  \/ StartGenerate(1, "generateQuiz", "s1", <<>>)
  \/ GenLlm(1)
  \/ GenSave(1)
  \/ Finish(1)

SpecGen == Init /\ [][NextGen]_vars

\* ------------------------------------------------------------------ claims

\* handler p has just returned r from route (or function) op
Returned(p, op) == pc[p] = "done" /\ loc[p].op = op

Rows(s) == {perf[s][i] : i \in DOMAIN perf[s]}

\* C1: after N updateSessionPerformance calls run one after another on a
\* new session, k of them with isCorrect, the stored row and the snapshot
\* the last call returned have totalProblems = N, correctAnswers = k and
\* accuracyRate = round-half-up(100 k / N).
C1_CountsAndAccuracy ==
  \A p \in Procs :
    (Returned(p, "updateSessionPerformance") /\ loc[p].ret.kind = "snapshot")
    => LET s == loc[p].sessionId
           N == hist[s].n
           k == hist[s].k
           Expected(r) == /\ r.totalProblems = N
                          /\ r.correctAnswers = k
                          /\ r.accuracyRate = RoundHalfUp(100 * k, N)
       IN  /\ Len(perf[s]) = 1
           /\ Expected(perf[s][1])
           /\ Expected(loc[p].ret.snapshot)

\* the part of C1 the code does keep: the two counters
C1_Counts ==
  \A p \in Procs :
    (Returned(p, "updateSessionPerformance") /\ loc[p].ret.kind = "snapshot")
    => LET s == loc[p].sessionId
       IN  /\ Len(perf[s]) = 1
           /\ perf[s][1].totalProblems = hist[s].n
           /\ perf[s][1].correctAnswers = hist[s].k
           /\ loc[p].ret.snapshot.totalProblems = hist[s].n
           /\ loc[p].ret.snapshot.correctAnswers = hist[s].k

\* C2: an update that makes the total newTotal keeps the prior difficulty
\* when newTotal < 3, and otherwise sets hard / medium / easy as the
\* recomputed accuracy is >= 80 / in [60, 80) / < 60; from the zeroed row
\* the counts (2,1), (3,2), (4,3), (5,4) carry 50 medium, 67 medium,
\* 75 medium, 80 hard.
C2_Step ==
  \A p \in Procs :
    (pc[p] = "upd_write" /\ pc'[p] = "done" /\ perf' # perf)
    => LET s     == loc[p].sessionId
           prior == perf[s][1]
           after == perf'[s][1]
       IN  /\ after.totalProblems = prior.totalProblems + 1
           /\ after.totalProblems < 3
                => after.currentDifficulty = prior.currentDifficulty
           /\ after.totalProblems >= 3
                => after.currentDifficulty =
                     IF after.accuracyRate >= 80 THEN "hard"
                     ELSE IF after.accuracyRate >= 60 THEN "medium"
                     ELSE "easy"

C2_Example ==
  \A s \in Sessions : \A r \in Rows(s) :
    LET Is(t, c) == r.totalProblems = t /\ r.correctAnswers = c
        Has(a, d) == r.accuracyRate = a /\ r.currentDifficulty = d
    IN  /\ Is(2, 1) => Has(50, "medium")
        /\ Is(3, 2) => Has(67, "medium")
        /\ Is(4, 3) => Has(75, "medium")
        /\ Is(5, 4) => Has(80, "hard")

C2_Difficulty == [][C2_Step]_vars /\ []C2_Example

C2_Witness ==
  perf["s1"] = <<[ZeroRow("s1") EXCEPT !.totalProblems = 5,
                                       !.correctAnswers = 4,
                                       !.accuracyRate = 80,
                                       !.currentDifficulty = "hard"]>>

\* C3: when another update of the same session, which had read the same
\* total, completes between an update's read and its write, that write
\* leaves totalProblems where it is: two calls completed, one increment.
C3_LostUpdate ==
  [][\A p \in Procs :
       LET s == loc[p].sessionId
           t == loc[p].performance[1].totalProblems
       IN  (/\ pc[p] = "upd_write"
            /\ pc'[p] = "done"
            /\ perf' # perf
            /\ hist[s].n = loc[p].readSeq + 1
            /\ \A r \in Rows(s) : r.totalProblems = t + 1)
           => /\ hist'[s].n = loc[p].readSeq + 2
              /\ \A i \in DOMAIN perf'[s] : perf'[s][i].totalProblems = t + 1
    ]_vars

C3_Witness ==
  \E s \in Sessions :
    /\ hist[s].n = 2
    /\ perf[s] # <<>>
    /\ \A r \in Rows(s) : r.totalProblems = 1

\* C4: the table never holds two rows for one session identifier.
C4_OneRowPerSession == \A s \in Sessions : Len(perf[s]) <= 1

\* C5: getOrCreate called twice in sequence for a session without a row
\* leaves exactly one row: the call that finds no row inserts the zeroed
\* row and returns it, the call that finds the row returns it and inserts
\* or changes nothing.
C5_Step ==
  \A p \in Procs :
    LET s == loc[p].sessionId
    IN  (/\ loc[p].op = "getOrCreate"
         /\ pc[p] \in {"goc_select", "goc_insert", "goc_reselect"}
         /\ pc'[p] # pc[p])
        => /\ Len(perf'[s]) <= 1
           /\ perf' # perf => perf[s] = <<>> /\ perf'[s] = <<ZeroRow(s)>>
           /\ (pc'[p] = "done" /\ loc'[p].ret.kind = "row")
                => /\ perf' = perf
                   /\ perf[s] = <<loc'[p].ret.row>>
                   /\ loc[p].inserted => loc'[p].ret.row = ZeroRow(s)

C5_GetOrCreateTwice == [][C5_Step]_vars

\* the second of two requests: it found the zeroed row the first inserted
C5_Witness ==
  \E p \in Procs :
    /\ Returned(p, "getOrCreate")
    /\ budget = 2
    /\ faults = 0
    /\ ~loc[p].inserted
    /\ loc[p].ret = [kind |-> "row", row |-> ZeroRow(loc[p].sessionId)]
    /\ perf[loc[p].sessionId] = <<ZeroRow(loc[p].sessionId)>>

\* C6: every stored row has totalProblems >= 0,
\* 0 <= correctAnswers <= totalProblems and 0 <= accuracyRate <= 100.
C6_RowRanges ==
  \A s \in Sessions : \A r \in Rows(s) :
    /\ r.totalProblems >= 0
    /\ 0 <= r.correctAnswers
    /\ r.correctAnswers <= r.totalProblems
    /\ 0 <= r.accuracyRate
    /\ r.accuracyRate <= 100

C6_Witness ==
  \E s \in Sessions : \E r \in Rows(s) :
    /\ r.totalProblems >= 2
    /\ 0 < r.correctAnswers
    /\ r.correctAnswers < r.totalProblems

\* C7: the stored totalProblems and correctAnswers of a row never decrease
\* from one state to the next.
C7_Monotonic ==
  [][\A s \in Sessions : \A i \in DOMAIN perf[s] :
       /\ perf'[s][i].totalProblems >= perf[s][i].totalProblems
       /\ perf'[s][i].correctAnswers >= perf[s][i].correctAnswers]_vars

\* C8: every stored row has accuracyRate =
\* round-half-up(100 correctAnswers / totalProblems), or 0 when
\* totalProblems = 0.
C8_AccuracyNeverStale ==
  \A s \in Sessions : \A r \in Rows(s) :
    r.accuracyRate = IF r.totalProblems > 0
                     THEN RoundHalfUp(100 * r.correctAnswers, r.totalProblems)
                     ELSE 0

\* C9: a submitQuizAnswer that returns its grading result returns
\* isCorrect = TRUE exactly when userAnswer equals the stored token of the
\* session's quiz character for character, and has called
\* updateSessionPerformance exactly once, with that boolean.
C9_Grading ==
  \A p \in Procs :
    (Returned(p, "submitQuizAnswer") /\ loc[p].ret.kind = "graded")
    => /\ loc[p].quizId \in DOMAIN quizzes
       /\ quizzes[loc[p].quizId].sessionId = loc[p].sessionId
       /\ loc[p].ret.isCorrect
            = (loc[p].userAnswer = quizzes[loc[p].quizId].correctAnswer)
       /\ loc[p].calls = <<loc[p].ret.isCorrect>>

\* an answer that differs from the token only in case is graded incorrect
C9_Witness ==
  \E p \in Procs :
    /\ Returned(p, "submitQuizAnswer")
    /\ loc[p].ret.kind = "graded"
    /\ loc[p].userAnswer = "a"
    /\ loc[p].ret.correctAnswer = "A"
    /\ loc[p].ret.isCorrect = FALSE
    /\ loc[p].calls = <<FALSE>>

\* C10: submitQuizAnswer with a quizId that is not among the quizzes of
\* its sessionId fails, changes no quiz row and performs no update.
C10_Step ==
  \A p \in Procs :
    (/\ loc[p].op = "submitQuizAnswer"
     /\ pc[p] = "sqa_getQuizzes"
     /\ pc'[p] # pc[p]
     /\ ~(/\ loc[p].quizId \in DOMAIN quizzes
          /\ quizzes[loc[p].quizId].sessionId = loc[p].sessionId))
    => /\ pc'[p] = "done"
       /\ loc'[p].ret.kind = "error"
       /\ loc'[p].calls = <<>>
       /\ quizzes' = quizzes
       /\ perf' = perf
       /\ hist' = hist

C10_QuizNotFound == [][C10_Step]_vars

\* the quiz exists, but in another session
C10_Witness ==
  \E p \in Procs :
    /\ Returned(p, "submitQuizAnswer")
    /\ faults = 0
    /\ loc[p].ret.kind = "error"
    /\ loc[p].calls = <<>>
    /\ loc[p].quizId \in DOMAIN quizzes
    /\ quizzes[loc[p].quizId].sessionId # loc[p].sessionId
    /\ quizzes[loc[p].quizId].userAnswer = <<>>

\* C11: when the updateSessionPerformance call made by submitQuizAnswer
\* fails, submitQuizAnswer still returns {isCorrect, correctAnswer,
\* explanation} as it would have had the update succeeded.
C11_UpdateFailureSwallowed ==
  [][\A p \in Procs :
       (/\ loc[p].op = "submitQuizAnswer"
        /\ pc[p] \in TrackerStatements
        /\ pc'[p] = "done")
       => loc'[p].ret = [kind |-> "graded",
                         isCorrect |-> loc[p].isCorrect,
                         correctAnswer |-> loc[p].quiz[1].correctAnswer]]_vars

\* C12: when the model returned usable text and the update that
\* sendMessage or evaluateAnswer triggered fails, the route still returns
\* the assistant text and the inferred correctness.
C12_Step ==
  \A p \in Procs :
    (/\ loc[p].op \in ChatOps
     /\ pc[p] \in TrackerStatements
     /\ pc'[p] = "done"
     /\ faults' # faults)
    => /\ loc[p].response # <<>>
       /\ perf' = perf
       /\ loc'[p].ret =
            IF loc[p].op = "sendMessage"
            THEN [kind |-> "chat", response |-> loc[p].response,
                  isAnswerEvaluation |-> TRUE,
                  isCorrect |-> detectAnswerCorrectness(loc[p].response)]
            ELSE [kind |-> "evaluation", evaluation |-> loc[p].response,
                  isCorrect |->
                    detectAnswerCorrectness(loc[p].response) = "True"]

C12_ChatSurvivesUpdateFailure == [][C12_Step]_vars

\* a chat request whose update was called and never completed
C12_Witness ==
  \E p \in Procs :
    /\ Returned(p, "sendMessage")
    /\ faults = 1
    /\ loc[p].calls = <<TRUE>>
    /\ hist[loc[p].sessionId].n = 0
    /\ loc[p].ret.kind = "chat"
    /\ loc[p].ret.response = <<"correct">>
    /\ loc[p].ret.isCorrect = "True"

\* text contains a marker of the list: one of its phrases does, letter
\* case ignored
HasMarker(list, text) ==
  \E m \in list : \E i \in DOMAIN text : Contains(text[i], m)

Inferred(p) == pc[p] = "done" /\ loc[p].op = "infer"

\* C13: detectAnswerCorrectness returns false for every text with an
\* incorrect marker, wherever a correct marker occurs in the same text.
C13_IncorrectFirst ==
  \A p \in Procs :
    (Inferred(p) /\ HasMarker(IncorrectPatterns, loc[p].response))
    => loc[p].signal = "False"

\* a correct marker before the incorrect one
C13_Witness ==
  \E p \in Procs :
    /\ Inferred(p)
    /\ loc[p].response = <<"well done", "NOT QUITE">>
    /\ loc[p].signal = "False"

\* C14: detectAnswerCorrectness returns true exactly for the texts with a
\* correct marker and no incorrect marker, null exactly for the texts
\* without any marker; equal texts give equal results, and applying it
\* changes no table.
C14_Results ==
  /\ \A p \in Procs :
       Inferred(p)
       => LET inc == HasMarker(IncorrectPatterns, loc[p].response)
              cor == HasMarker(CorrectPatterns, loc[p].response)
          IN  /\ loc[p].signal = "True" <=> (~inc /\ cor)
              /\ loc[p].signal = "Unknown" <=> (~inc /\ ~cor)
  /\ \A p, q \in Procs :
       (Inferred(p) /\ Inferred(q) /\ loc[p].response = loc[q].response)
       => loc[p].signal = loc[q].signal

C14_Frame ==
  \A p \in Procs :
    (pc[p] = "infer" /\ pc'[p] = "done")
    => /\ <<perf, quizzes, problems, hist>>' = <<perf, quizzes, problems, hist>>
       /\ loc'[p].response = loc[p].response

C14_TrueAndUnknown == []C14_Results /\ [][C14_Frame]_vars

C14_Witness ==
  \E p, q \in Procs :
    /\ Inferred(p)
    /\ Inferred(q)
    /\ loc[p].response = <<"hello", "Correct">>
    /\ loc[p].signal = "True"
    /\ loc[q].response = <<"hello">>
    /\ loc[q].signal = "Unknown"

\* handler p has just returned from a generation route
Generating(p) == pc[p] = "done" /\ loc[p].op \in GenerateOps

\* rows the call of handler p has inserted so far
Inserted(p) ==
  SubSeq(Table(loc[p].op), loc[p].rows0 + 1, Len(Table(loc[p].op)))

\* C15: a generation route whose model call threw, or gave no choices or
\* no text content, returns the empty collection with count 0 and has
\* inserted no row; it does not raise.
C15_SoftFail ==
  \A p \in Procs :
    (Generating(p) /\ loc[p].response = <<>>)
    => /\ loc[p].ret = Generated(<<>>)
       /\ Inserted(p) = <<>>

\* the elements of seq whose outcome is TRUE, in their order
KeptIndices(outcomes) == {i \in DOMAIN outcomes : outcomes[i]}

Nth(S, j) == CHOOSE i \in S : Cardinality({k \in S : k <= i}) = j

Kept(seq, outcomes) ==
  [j \in 1..Cardinality(KeptIndices(outcomes)) |->
     seq[Nth(KeptIndices(outcomes), j)]]

\* C16: the candidates are saved one after the other in their order; an
\* item whose insert fails is left out and the later items are still
\* attempted; the route returns the saved candidates in their order, and
\* count is their number and the number of rows the call inserted.
C16_Result ==
  \A p \in Procs :
    (Generating(p) /\ loc[p].ret.kind = "generated")
    => LET l    == loc[p]
           kept == Kept(l.candidates, l.outcomes)
       IN  /\ Len(l.outcomes) = Len(l.candidates)
           /\ l.ret.items = [j \in DOMAIN kept |-> SavedItem(l.op, kept[j])]
           /\ l.ret.count = Len(kept)
           /\ Inserted(p) = [j \in DOMAIN kept |-> RowOf(l, kept[j])]

C16_Step ==
  \A p \in Procs :
    (pc[p] = "gen_save" /\ loc'[p].outcomes # loc[p].outcomes)
    => LET l == loc[p]
           n == Len(l.outcomes) + 1
       IN  /\ Len(loc'[p].outcomes) = n
           /\ l.items = SubSeq(l.candidates, n, Len(l.candidates))
           /\ Table(l.op)' = IF loc'[p].outcomes[n]
                             THEN Append(Table(l.op), RowOf(l, l.candidates[n]))
                             ELSE Table(l.op)

C16_SequentialSave == []C16_Result /\ [][C16_Step]_vars

\* three complete candidates, the insert of the second rejected
C16_Witness ==
  \E p \in Procs :
    /\ Generating(p)
    /\ faults = 1
    /\ Len(loc[p].candidates) = 3
    /\ loc[p].outcomes = <<TRUE, FALSE, TRUE>>
    /\ loc[p].ret.count = 2
    /\ Len(Inserted(p)) = 2

\* a JSON array whose elements are all records
ArrayOfRecords(toks) ==
  /\ JSONParse(toks) # <<>>
  /\ JSONParse(toks)[1].t = "arr"
  /\ \A i \in DOMAIN JSONParse(toks)[1].items :
       JSONParse(toks)[1].items[i].t = "obj"

\* C17: when every insert is accepted, a response that is a valid JSON
\* array of n records, alone or with prose before and after it, yields
\* those n records as items, in their order, and count = n.
C17_ProseAround ==
  \A p \in Procs :
    Generating(p) /\ loc[p].ret.kind = "generated"
    => \A pre \in Prefixes, core \in Cores, suf \in Suffixes :
         (/\ loc[p].response = pre \o core \o suf
          /\ ArrayOfRecords(core)
          /\ \A i \in DOMAIN loc[p].outcomes : loc[p].outcomes[i])
         => LET records == JSONParse(core)[1].items
            IN  /\ loc[p].ret.count = Len(records)
                /\ loc[p].ret.items =
                     [i \in DOMAIN records |-> SavedItem(loc[p].op, records[i])]
                /\ Len(Inserted(p)) = Len(records)

C19_QuizShape ==
  \A i \in DOMAIN quizzes :
    /\ quizzes[i].question # ""
    /\ quizzes[i].options.isJson
    /\ Len(quizzes[i].options.list) = 4
    /\ quizzes[i].correctAnswer # ""
    /\ quizzes[i].explanation # <<>>

\* C20: db.getSessionPerformance changes no row; on a session without a
\* row it yields null (the route goes on to getOrCreateSessionPerformance),
\* on a session with a row it yields a row of that session.
C20_Step ==
  \A p \in Procs :
    (pc[p] = "gsp_select" /\ pc'[p] # "gsp_select")
    => /\ perf' = perf
       /\ faults' = faults
            => IF perf[loc[p].sessionId] = <<>>
               THEN pc'[p] = "goc_select" /\ loc'[p].ret = NoRet
               ELSE /\ pc'[p] = "done"
                    /\ loc'[p].ret.kind = "row"
                    /\ loc'[p].ret.row \in Rows(loc[p].sessionId)

C20_GetReadOnly == [][C20_Step]_vars

\* one read has found no row and has left none; another has returned the
\* row of a session that has one
C20_Witness ==
  \E p, q \in Procs :
    /\ loc[p].op = "getSessionPerformance"
    /\ pc[p] = "goc_select"
    /\ perf[loc[p].sessionId] = <<>>
    /\ Returned(q, "getSessionPerformance")
    /\ ~loc[q].inserted
    /\ loc[q].ret.kind = "row"
    /\ loc[q].ret.row.totalProblems = 1
    /\ perf[loc[q].sessionId] = <<loc[q].ret.row>>

\* C21: sendMessage fails with an error whenever the model gave no
\* choices, or content that is absent or no text; no text is returned and
\* updateSessionPerformance is not called.
C21_Step ==
  \A p \in Procs :
    (/\ loc[p].op = "sendMessage"
     /\ pc[p] = "llm"
     /\ pc'[p] # "llm"
     /\ loc'[p].response = <<>>)
    => /\ pc'[p] = "done"
       /\ loc'[p].ret = [kind |-> "error",
                         message |-> "Failed to get AI response"]
       /\ loc'[p].calls = <<>>
       /\ perf' = perf
       /\ hist' = hist

C21_ModelError == [][C21_Step]_vars

C21_Witness ==
  \E p \in Procs :
    /\ Returned(p, "sendMessage")
    /\ faults = 0
    /\ loc[p].response = <<>>
    /\ loc[p].ret.kind = "error"
    /\ loc[p].calls = <<>>

\* C22: a sendMessage or evaluateAnswer call that returns its reply has
\* called updateSessionPerformance once, with the inferred boolean, when
\* the inference gave true or false, and not at all when it gave null;
\* sendMessage reports isAnswerEvaluation = true exactly when it did not
\* give null.
C22_UpdateOnSignal ==
  \A p \in Procs :
    /\ loc[p].op \in ChatOps => Len(loc[p].calls) <= 1
    /\ (pc[p] = "done" /\ loc[p].op \in ChatOps /\ loc[p].ret.kind # "error")
       => LET sig == detectAnswerCorrectness(loc[p].response)
          IN  /\ loc[p].calls = IF sig = "Unknown" THEN <<>>
                                ELSE <<sig = "True">>
              /\ loc[p].op = "sendMessage"
                   => loc[p].ret.isAnswerEvaluation = (sig # "Unknown")

\* a reply with both kinds of marker: one update, with false, completed
C22_Witness ==
  \E p \in Procs :
    /\ Returned(p, "sendMessage")
    /\ faults = 0
    /\ loc[p].response = <<"well done", "not quite">>
    /\ loc[p].ret.kind = "chat"
    /\ loc[p].ret.isAnswerEvaluation
    /\ loc[p].calls = <<FALSE>>
    /\ hist[loc[p].sessionId] = [n |-> 1, k |-> 0]

\* C30: evaluateAnswer returns isCorrect = false whenever the inference
\* gave null, and then has neither called updateSessionPerformance nor
\* changed a performance row.
C30_Step ==
  \A p \in Procs :
    (/\ loc[p].op = "evaluateAnswer"
     /\ pc[p] = "llm"
     /\ pc'[p] # "llm"
     /\ loc'[p].response # <<>>
     /\ detectAnswerCorrectness(loc'[p].response) = "Unknown")
    => /\ pc'[p] = "done"
       /\ loc'[p].ret = [kind |-> "evaluation",
                         evaluation |-> loc'[p].response,
                         isCorrect |-> FALSE]
       /\ loc'[p].calls = <<>>
       /\ perf' = perf
       /\ hist' = hist

C30_UnknownIsFalse == [][C30_Step]_vars

\* isCorrect = false returned, and no update ever made for the session
C30_Witness ==
  \E p \in Procs :
    /\ Returned(p, "evaluateAnswer")
    /\ loc[p].response = <<"hello">>
    /\ loc[p].ret.kind = "evaluation"
    /\ loc[p].ret.isCorrect = FALSE
    /\ loc[p].calls = <<>>
    /\ perf[loc[p].sessionId] = <<>>

\* the extraction as the specification words it: the first "[" and the "]"
\* that closes it, found by counting bracket depth
BracketDepth(toks, i, j) ==
  Cardinality({k \in i..j : toks[k] = "["})
    - Cardinality({k \in i..j : toks[k] = "]"})

FirstBalancedArray(toks) ==
  LET opens == {i \in 1..Len(toks) : toks[i] = "["}
  IN  IF opens = {} THEN <<>>
      ELSE LET i      == CHOOSE x \in opens : \A y \in opens : x <= y
               closes == {j \in i..Len(toks) : BracketDepth(toks, i, j) = 0}
           IN  IF closes = {} THEN <<>>
               ELSE LET j == CHOOSE x \in closes : \A y \in closes : x <= y
                    IN  <<SubSeq(toks, i, j)>>

\* the items of the array that text is, <<>> when it is none
ArrayItems(toks) ==
  IF JSONParse(toks) # <<>> /\ JSONParse(toks)[1].t = "arr"
  THEN JSONParse(toks)[1].items
  ELSE <<>>

IsArray(toks) == JSONParse(toks) # <<>> /\ JSONParse(toks)[1].t = "arr"

\* C23: for a response that is not itself a JSON array, the candidates are
\* the elements of the first balanced bracketed array of the response;
\* what follows its closing bracket does not change them.
C23_FirstBalancedArray ==
  \A p \in Procs :
    (/\ Generating(p)
     /\ loc[p].response # <<>>
     /\ ~IsArray(loc[p].response)
     /\ FirstBalancedArray(loc[p].response) # <<>>)
    => loc[p].candidates = ArrayItems(FirstBalancedArray(loc[p].response)[1])

\* the four fields an update writes
FourFields(r) ==
  [totalProblems     |-> r.totalProblems,
   correctAnswers    |-> r.correctAnswers,
   accuracyRate      |-> r.accuracyRate,
   currentDifficulty |-> r.currentDifficulty]

\* C24: the write of an update sets the four fields of the session's row
\* together, to the snapshot the update returns, and no other step changes
\* a stored row: in every state, under any interleaving, a row is the
\* zeroed row or holds the four values of one update, its accuracy being
\* the one computed from its own counters.
C24_Step ==
  \A p \in Procs :
    LET s == loc[p].sessionId
    IN  IF /\ loc[p].op = "updateSessionPerformance"
           /\ pc[p] = "upd_write"
           /\ pc'[p] = "done"
           /\ hist' # hist
        THEN /\ loc'[p].ret.kind = "snapshot"
             /\ loc'[p].ret.snapshot.totalProblems =
                  loc[p].performance[1].totalProblems + 1
             /\ perf'[s] # <<>>
             /\ \A i \in DOMAIN perf'[s] :
                  FourFields(perf'[s][i]) = loc'[p].ret.snapshot
        ELSE pc[p] \in {"goc_select", "goc_insert", "goc_reselect"}
             /\ pc'[p] # pc[p]
             => \A i \in DOMAIN perf[s] : perf'[s][i] = perf[s][i]

C24_Rows ==
  /\ \A s \in Sessions : \A r \in Rows(s) :
       IF r.totalProblems = 0
       THEN r = ZeroRow(s)
       ELSE r.accuracyRate = NewAccuracy(r.correctAnswers, r.totalProblems)
  /\ \A p \in Procs :
       Returned(p, "updateSessionPerformance") /\ loc[p].ret.kind = "snapshot"
       => \A r \in Rows(loc[p].sessionId) :
            FourFields(r) = loc[p].ret.snapshot

C24_AtomicWrite == []C24_Rows /\ [][C24_Step]_vars

\* a write that overtook two others has replaced all four fields
C24_Witness ==
  \E p \in Procs :
    /\ Returned(p, "updateSessionPerformance")
    /\ hist[loc[p].sessionId].n = 3
    /\ loc[p].ret.snapshot =
         [totalProblems |-> 1, correctAnswers |-> 0, accuracyRate |-> 0,
          currentDifficulty |-> "medium"]
    /\ \A r \in Rows(loc[p].sessionId) : FourFields(r) = loc[p].ret.snapshot

\* C25: in every state, also with updates interleaved, a row with fewer
\* than three problems has difficulty medium.
C25_MediumBelowThree ==
  \A s \in Sessions : \A r \in Rows(s) :
    r.totalProblems < 3 => r.currentDifficulty = "medium"

\* a late write of an early read takes a row of five correct answers back
\* to one problem
C25_Witness ==
  \E r \in Rows("s1") :
    /\ hist["s1"].n = 6
    /\ hist["s1"].k >= 5
    /\ r.totalProblems = 1
    /\ r.currentDifficulty = "medium"

\* C26: under any interleaving of the updates of a session, its stored
\* totalProblems is at most the number of update writes completed, and its
\* correctAnswers at most the number of those made with isCorrect = true.
C26_CountsBounded ==
  \A s \in Sessions : \A r \in Rows(s) :
    /\ r.totalProblems <= hist[s].n
    /\ r.correctAnswers <= hist[s].k

\* four correct answers written, two of them counted
C26_Witness ==
  \E r \in Rows("s1") :
    /\ hist["s1"] = [n |-> 4, k |-> 4]
    /\ r.totalProblems = 2
    /\ r.correctAnswers = 2

\* C27: with the updates of a session made one after the other, no update
\* takes currentDifficulty from easy to hard or from hard to easy: between
\* the two the row is medium.
C27_Step ==
  \A s \in Sessions : \A i \in DOMAIN perf[s] :
    /\ ~(perf[s][i].currentDifficulty = "easy"
         /\ perf'[s][i].currentDifficulty = "hard")
    /\ ~(perf[s][i].currentDifficulty = "hard"
         /\ perf'[s][i].currentDifficulty = "easy")

C27_ThroughMedium == [][C27_Step]_vars

\* the largest fall there is from a hard row: 3 of 3, then a wrong answer
\* gives 75 and medium
C27_Witness ==
  \E p \in Procs :
    /\ Returned(p, "updateSessionPerformance")
    /\ loc[p].performance[1].totalProblems = 3
    /\ loc[p].performance[1].currentDifficulty = "hard"
    /\ loc[p].isCorrect = FALSE
    /\ loc[p].ret.snapshot.accuracyRate = 75
    /\ loc[p].ret.snapshot.currentDifficulty = "medium"
    /\ \A r \in Rows(loc[p].sessionId) : r.currentDifficulty = "medium"

\* C28: every submitQuizAnswer call that returns a grading, a repeated one
\* for a quiz that has an answer included, has added exactly one to the
\* session's totalProblems (calls made in sequence), and the quiz row
\* holds the answer and the outcome of that last call.
C28_Step ==
  \A p \in Procs :
    (/\ loc[p].op = "submitQuizAnswer"
     /\ pc[p] # "done"
     /\ pc'[p] = "done"
     /\ loc'[p].ret.kind = "graded")
    => LET s == loc[p].sessionId
       IN  /\ perf[s] # <<>>
           /\ Len(perf'[s]) = Len(perf[s])
           /\ \A i \in DOMAIN perf[s] :
                perf'[s][i].totalProblems = perf[s][i].totalProblems + 1
           /\ quizzes'[loc[p].quizId].userAnswer = <<loc[p].userAnswer>>
           /\ quizzes'[loc[p].quizId].isCorrect =
                <<IF loc'[p].ret.isCorrect THEN 1 ELSE 0>>

C28_NoDeduplication == [][C28_Step]_vars

\* the quiz had the answer "A" when the call read it; the call stored "a"
\* and the session counts two problems
C28_Witness ==
  \E p \in Procs :
    /\ Returned(p, "submitQuizAnswer")
    /\ loc[p].ret.kind = "graded"
    /\ loc[p].quiz[1].userAnswer = <<"A">>
    /\ quizzes[loc[p].quizId].userAnswer = <<"a">>
    /\ quizzes[loc[p].quizId].isCorrect = <<0>>
    /\ \A r \in Rows(loc[p].sessionId) :
         r.totalProblems = 2 /\ r.correctAnswers = 1

\* C29: when a statement of the performance update inside submitQuizAnswer
\* fails after the quiz row was written, the call fails, the quiz row keeps
\* the submitted answer and its outcome, and the counters of the session
\* are those of the updates completed before.
C29_Step ==
  \A p \in Procs :
    (/\ loc[p].op = "submitQuizAnswer"
     /\ pc[p] \in TrackerStatements
     /\ pc'[p] = "done"
     /\ loc'[p].ret.kind = "error")
    => /\ quizzes'[loc[p].quizId].userAnswer = <<loc[p].userAnswer>>
       /\ quizzes'[loc[p].quizId].isCorrect =
            <<IF loc[p].isCorrect THEN 1 ELSE 0>>
       /\ perf' = perf
       /\ hist' = hist

C29_Kept ==
  \A p \in Procs :
    (/\ Returned(p, "submitQuizAnswer")
     /\ loc[p].ret.kind = "error"
     /\ loc[p].calls # <<>>)
    => /\ quizzes[loc[p].quizId].userAnswer = <<loc[p].userAnswer>>
       /\ \A r \in Rows(loc[p].sessionId) :
            /\ r.totalProblems = hist[loc[p].sessionId].n
            /\ r.correctAnswers = hist[loc[p].sessionId].k

C29_NoRollback == []C29_Kept /\ [][C29_Step]_vars

\* the UPDATE of the performance row failed: the quiz is answered, the
\* session's row counts nothing
C29_Witness ==
  \E p \in Procs :
    /\ Returned(p, "submitQuizAnswer")
    /\ loc[p].ret.kind = "error"
    /\ loc[p].calls = <<TRUE>>
    /\ loc[p].performance # <<>>
    /\ faults = 1
    /\ quizzes[loc[p].quizId].userAnswer = <<"A">>
    /\ quizzes[loc[p].quizId].isCorrect = <<1>>
    /\ perf[loc[p].sessionId] = <<ZeroRow(loc[p].sessionId)>>

====
